---- MODULE Spec2Model ----
(***************************************************************************)
(* AirCommand: the App component (device registry, command dispatcher,     *)
(* voice-session controller, activity log) as a state machine.             *)
(*                                                                         *)
(* One action is one event-loop task of the browser: a click handler, a    *)
(* timer callback, a promise continuation or a channel callback.  A task   *)
(* that carries on in microtasks (the tool-call loop of onmessage after a  *)
(* dispatch has returned) holds `running` until it reaches a real await,   *)
(* so no other task interleaves with it.                                   *)
(*                                                                         *)
(* React state (devices, logs, isConnected) is the committed state.  A     *)
(* function created in a render closes over that render's state: the       *)
(* quick-action buttons and the toggle button are re-rendered before the   *)
(* next click and read the current state, while the callbacks handed to    *)
(* ai.live.connect keep the closure of the render in which the user        *)
(* clicked the toggle (attempt[k].devices).                                *)
(***************************************************************************)
EXTENDS Integers, Sequences, FiniteSets, TLC

\* ------------------------------------------------------------------ bounds
MaxConn    == 2   \* toggleConnection calls that get past the isConnected test
MaxToggles == 3   \* clicks on the toggle button (session specification)
OneToggle  == 1   \* clicks on the toggle button (dispatch specification)
MaxMsgs    == 1   \* inbound messages carrying a tool call
MaxCalls   == 2   \* function calls in one inbound message
MaxButtons == 1   \* clicks on a quick-action button
MaxReloads == 1   \* clicks on "Apply Changes"
MaxFrames  == 1   \* onaudioprocess callbacks
TwoToggles == 2   \* clicks on the toggle button (audio specification)
MaxChunks  == 2   \* inbound messages carrying an audio chunk
MaxDuration == 2  \* longest audioBuffer.duration, in clock units
MaxTime    == 3   \* last value of ctx.currentTime that is explored

Conns == 1..MaxConn

\* ------------------------------------------------------- device.conf text
\* A configuration text is a sequence of lines; a line is the sequence of its
\* comma-separated, trimmed fields.  <<>> is a blank line, a line whose first
\* field is "#" is a comment line.
DEFAULT_CONFIG ==
  << <<"#">>, <<"#">>, <<"#">>, <<"#">>, <<"#">>, <<>>, <<"#">>,
     <<"iphone16p", "00000-001C01C", "10.139.233.204">>,
     <<"iphone17", "00-0010501C", "10.139.233.136">>,
     <<"ipad", "00032-000A2B801C", "10.139.233.66">> >>

\* Texts the operator may type into the editor before "Apply Changes".
Configs ==
  { DEFAULT_CONFIG,
    << <<"ipad", "00032-000A2B801C", "10.139.233.66">>, <<"ipad", "badline">> >>,
    << <<"iphone17", "00-0010501C", "10.139.233.136">>,
       <<"watch", "00-0010501C", "10.139.233.7", "extra">> >> }

\* Math.floor(Math.random() * 40) + 60 lies in 60..99, drawn per device; the
\* model draws one of two assignments of levels to the data lines.
BatteryDraws(n) == { [i \in 1..n |-> 60], [i \in 1..n |-> 100 - i] }

\* name.toLowerCase().includes(..) on the names the configurations use.
IsIphone(name) == name \in {"iphone16p", "iphone17"}
IsIpad(name)   == name \in {"ipad"}
Has16(name)    == name \in {"iphone16p"}
Has17(name)    == name \in {"iphone17"}

ModelOf(name) ==
  IF IsIphone(name)
  THEN IF Has16(name) THEN "iPhone 15 Pro"
       ELSE IF Has17(name) THEN "iPhone 16 Pro Max" ELSE "iPhone"
  ELSE IF IsIpad(name) THEN "iPad Air" ELSE "Unknown Device"

OsOf(name) ==
  IF ~IsIphone(name) /\ IsIpad(name) THEN "iPadOS 17.0" ELSE "iOS 17.0"

IsDataLine(line) == Len(line) >= 3 /\ line[1] # "#"

DataLines(content) == SelectSeq(content, IsDataLine)

\* parseConfig's device list for `content`, battery[i] being the random level
\* of the i-th data line; lastScreenshot 0 stands for an absent reference.
ParsedDevices(content, battery) ==
  [i \in 1..Len(DataLines(content)) |->
     LET parts == DataLines(content)[i] IN
     [id |-> parts[2], name |-> parts[1], model |-> ModelOf(parts[1]),
      osVersion |-> OsOf(parts[1]), ip |-> parts[3], status |-> "connected",
      batteryLevel |-> battery[i], currentApp |-> "SpringBoard",
      lastScreenshot |-> 0]]

\* ------------------------------------------------------------ activity log
LogEntry(source, message, type) ==
  [source |-> source, message |-> message, type |-> type]

\* setLogs(prev => [entry, ...prev]): the entry put first.
addLog_Prepend(log, source, message, type) ==
  <<LogEntry(source, message, type)>> \o log

addLog(log, source, message, type) == Append(log, LogEntry(source, message, type))

\* ------------------------------------------------------ command dispatcher
\* The values of the ScriptCommand enum, in declaration order.
ScriptCommand ==
  <<"url", "launch", "kill", "home", "restart", "screenshot", "text",
    "install", "uninstall", "apps", "quit">>

\* Object.values(ScriptCommand).slice(0, 8): the quick-action buttons.
QuickActions == { ScriptCommand[i] : i \in 1..8 }

Range(seq) == { seq[i] : i \in DOMAIN seq }

\* Math.random() in the placeholder screenshot URL: a value no other call
\* returns, here the number of the dispatch and of the device.
RandomSeed(i, j) == 10 * i + j

NoOnlineDevices == <<"Error: No online devices found for the command.">>

IsOnline(d) == d.status # "offline"

\* handleScriptExecution, target resolution: `view` is the `devices` of the
\* render that created the function.
ResolveTargets(view, targetDevices) ==
  LET isAll == "all" \in Range(targetDevices)
      Named(d) == d.id \in Range(targetDevices) /\ d.status # "offline"
  IN IF isAll THEN SelectSeq(view, IsOnline) ELSE SelectSeq(view, Named)

IsTarget(targets, d) == \E t \in DOMAIN targets : targets[t].id = d.id

deviceNames(targets) == [t \in DOMAIN targets |-> targets[t].name]

\* SetBusy without the test of the id: every device becomes busy.
SetBusy_All(prev, targets) ==
  [i \in DOMAIN prev |-> [prev[i] EXCEPT !.status = "busy"]]

\* setDevices(prev => prev.map(..status: 'busy'..))
SetBusy(prev, targets) ==
  [i \in DOMAIN prev |->
     IF IsTarget(targets, prev[i]) THEN [prev[i] EXCEPT !.status = "busy"]
     ELSE prev[i]]

\* The updates with a home that opens the app switcher from the home screen.
ApplyUpdates_HomeSwitcher(d, action, argument, shot) ==
  LET c == [d EXCEPT !.status = "connected"] IN
  CASE action = "url"        -> [c EXCEPT !.currentApp = "Safari"]
    [] action = "launch"     -> [c EXCEPT !.currentApp =
                                   IF argument \in {"undefined", ""} THEN "App"
                                   ELSE argument]
    [] action = "kill"       -> [c EXCEPT !.currentApp = "SpringBoard"]
    [] action = "home"       -> [c EXCEPT !.currentApp =
                                   IF d.currentApp = "SpringBoard"
                                   THEN "AppSwitcher" ELSE "SpringBoard"]
    [] action = "restart"    -> [c EXCEPT !.status = "offline"]
    [] action = "screenshot" -> [c EXCEPT !.lastScreenshot = shot]
    [] OTHER                 -> c

\* The updates with `argument` in place of `argument || 'App'`.
ApplyUpdates_NoPlaceholder(d, action, argument, shot) ==
  LET c == [d EXCEPT !.status = "connected"] IN
  CASE action = "url"        -> [c EXCEPT !.currentApp = "Safari"]
    [] action = "launch"     -> [c EXCEPT !.currentApp = argument]
    [] action = "kill"       -> [c EXCEPT !.currentApp = "SpringBoard"]
    [] action = "home"       -> [c EXCEPT !.currentApp = "SpringBoard"]
    [] action = "restart"    -> [c EXCEPT !.status = "offline"]
    [] action = "screenshot" -> [c EXCEPT !.lastScreenshot = shot]
    [] OTHER                 -> c

\* { ...d, ...updates } for one targeted device; shot is the random seed of the
\* screenshot URL.
ApplyUpdates(d, action, argument, shot) ==
  LET c == [d EXCEPT !.status = "connected"] IN
  CASE action = "url"        -> [c EXCEPT !.currentApp = "Safari"]
    [] action = "launch"     -> [c EXCEPT !.currentApp =
                                   IF argument \in {"undefined", ""} THEN "App"
                                   ELSE argument]
    [] action = "kill"       -> [c EXCEPT !.currentApp = "SpringBoard"]
    [] action = "home"       -> [c EXCEPT !.currentApp = "SpringBoard"]
    [] action = "restart"    -> [c EXCEPT !.status = "offline"]
    [] action = "screenshot" -> [c EXCEPT !.lastScreenshot = shot]
    [] OTHER                 -> c

\* The second update with targets[0] in place of the search of the targets.
Settle_FirstTarget(prev, targets, action, argument, shots) ==
  [i \in DOMAIN prev |->
     IF Len(targets) > 0 /\ targets[1].id = prev[i].id
     THEN ApplyUpdates(prev[i], action, argument, shots[i])
     ELSE prev[i]]

\* setDevices(prev => prev.map(..updates..)) after the settle delay.
Settle(prev, targets, action, argument, shots) ==
  [i \in DOMAIN prev |->
     IF IsTarget(targets, prev[i])
     THEN ApplyUpdates(prev[i], action, argument, shots[i])
     ELSE prev[i]]

\* The 'Typed text on <name>' entries the second updater appends, one per
\* registry device that is a target.
TypedLogs(prev, targets, action) ==
  IF action = "text"
  THEN LET hit == SelectSeq(prev, LAMBDA d : IsTarget(targets, d)) IN
       [i \in DOMAIN hit |->
          LogEntry("System", <<"Typed text on", hit[i].name>>, "success")]
  ELSE <<>>

\* Text returned by a dispatch that ran to the end.
Executed(action, targets) ==
  <<"Command", action, "executed successfully on">> \o deviceNames(targets)

\* --------------------------------------------------------- inbound messages
\* The function calls a message may carry.  targetDevices <<"absent">> stands
\* for a call without the field (args.targetDevices is undefined).
Absent == <<"absent">>

Call(name, action, argument, targetDevices) ==
  [name |-> name, action |-> action, argument |-> argument,
   targetDevices |-> targetDevices]

\* The messages tried: each kind of call, alone and in pairs.
Restart == Call("execute_ios_script", "restart", "undefined", <<"all">>)
Home    == Call("execute_ios_script", "home", "undefined", Absent)
Launch  == Call("execute_ios_script", "launch", "com.apple.Maps", <<"00032-000A2B801C">>)
Text    == Call("execute_ios_script", "text", "hello", <<"00-0010501C", "00032-000A2B801C">>)
Shot    == Call("execute_ios_script", "screenshot", "undefined", <<"no-such-udid">>)
Url     == Call("execute_ios_script", "url", "https://example.com", <<>>)
Other   == Call("get_battery", "home", "undefined", <<"all">>)

ToolCalls ==
  { <<Restart, Home>>, <<Launch, Text>>, <<Shot, Launch>>, <<Other, Url>>,
    <<Home>>, <<Text, Restart>> }

\* args.targetDevices || ['all']
TargetDevicesOf(fc) ==
  IF fc.targetDevices = Absent THEN <<"all">> ELSE fc.targetDevices

\* ------------------------------------------------------------ the channel
NoSession == [st |-> "none", resolved |-> FALSE]

Live(s) == s.st \in {"connecting", "open"}

NoNode == [source |-> "none", processor |-> "none", ctx |-> 0, stream |-> 0]

VARIABLES
  devices,      \* useState<IOSDevice[]>
  logs,         \* useState<LogEntry[]>
  isConnected,  \* useState(false)
  apiKey,       \* useState(""): TRUE when the stored key is non-empty
  envKey,       \* process.env.API_KEY is non-empty
  aistudio,     \* window.aistudio.openSelectKey exists
  audioContextRef, outputAudioContextRef, streamRef, processorRef, sourceRef,
  sessionPromiseRef,  \* the refs: 0 is null, k the object made by attempt k
  attempt,      \* toggleConnection calls past the isConnected test: where each
                \* stands (pc) and the devices of its closure
  ctxIn,        \* input AudioContext of attempt k
  ctxOut,       \* output AudioContext of attempt k
  stream,       \* MediaStream of attempt k
  session,      \* channel opened by attempt k and its connect promise
  node,         \* source and processor nodes made by onopen of session k
  disp,         \* handleScriptExecution calls
  hand,         \* onmessage calls
  running,      \* onmessage call that continues in microtasks, 0 if none
  sent,         \* what was handed to the channels, in order
  thenQ,        \* callbacks waiting for the connect promise of session k
  clicks,       \* toggles, quick actions, reloads, audio callbacks so far
  isTalking,    \* useState(false)
  nextStartTimeRef,  \* the playback cursor
  currentTime,  \* ctx.currentTime of the output AudioContext of attempt k
  chunks,       \* inbound audio chunks, in arrival order
  played        \* source.start calls, in call order

vars == <<devices, logs, isConnected, apiKey, envKey, aistudio,
          audioContextRef, outputAudioContextRef, streamRef, processorRef,
          sourceRef, sessionPromiseRef, attempt, ctxIn, ctxOut, stream,
          session, node, disp, hand, running, sent, thenQ, clicks,
          isTalking, nextStartTimeRef, currentTime, chunks, played>>

refs  == <<audioContextRef, outputAudioContextRef, streamRef, processorRef,
           sourceRef, sessionPromiseRef>>
env   == <<apiKey, envKey, aistudio>>
audio == <<ctxIn, ctxOut, stream, node>>
playback == <<isTalking, nextStartTimeRef, currentTime, chunks, played>>

\* The state after the mount effect: the key is read, DEFAULT_CONFIG is parsed
\* and the two entries are logged.  window.aistudio is consulted only when the
\* stored key is empty.
Init ==
  /\ \E battery \in BatteryDraws(Len(DataLines(DEFAULT_CONFIG))) :
       devices = ParsedDevices(DEFAULT_CONFIG, battery)
  /\ logs = << LogEntry("System",
                        <<"Configuration loaded.", "3", "devices found.">>, "success"),
               LogEntry("System",
                        <<"iOS AirCommand Dashboard Initialized.">>, "info") >>
  /\ isConnected = FALSE
  /\ envKey \in BOOLEAN
  /\ apiKey = envKey
  /\ aistudio \in (IF envKey THEN {FALSE} ELSE BOOLEAN)
  /\ audioContextRef = 0 /\ outputAudioContextRef = 0 /\ streamRef = 0
  /\ processorRef = 0 /\ sourceRef = 0 /\ sessionPromiseRef = 0
  /\ attempt = [k \in Conns |-> [pc |-> "none", devices |-> <<>>]]
  /\ ctxIn = [k \in Conns |-> "none"]
  /\ ctxOut = [k \in Conns |-> "none"]
  /\ stream = [k \in Conns |-> "none"]
  /\ session = [k \in Conns |-> NoSession]
  /\ node = [k \in Conns |-> NoNode]
  /\ disp = <<>>
  /\ hand = <<>>
  /\ running = 0
  /\ sent = <<>>
  /\ thenQ = [k \in Conns |-> <<>>]
  /\ clicks = [toggle |-> 0, button |-> 0, reload |-> 0, frame |-> 0]
  /\ isTalking = FALSE
  /\ nextStartTimeRef = 0
  /\ currentTime = [k \in Conns |-> 0]
  /\ chunks = <<>>
  /\ played = <<>>

\* "Apply Changes": parseConfig(configContent) on the text in the editor.
parseConfig ==
  /\ running = 0
  /\ clicks.reload < MaxReloads
  /\ \E content \in Configs :
       \E battery \in BatteryDraws(Len(DataLines(content))) :
         LET parsedDevices == ParsedDevices(content, battery) IN
         /\ devices' = parsedDevices
         /\ logs' = addLog(logs, "System",
                           <<"Configuration loaded.", ToString(Len(parsedDevices)),
                             "devices found.">>, "success")
  /\ clicks' = [clicks EXCEPT !.reload = @ + 1]
  /\ UNCHANGED <<playback, isConnected, env, refs, attempt, audio, session, disp, hand,
                 running, sent, thenQ>>

\* ------------------------------------------------------------- dispatching
Dispatch(st, origin, action, argument, targets, result) ==
  [st |-> st, origin |-> origin, action |-> action, argument |-> argument,
   targets |-> targets, result |-> result]

\* handleScriptExecution without the early return on an empty target list.
handleScriptExecution_NoEmptyCheck(view, action, argument, targetDevices, origin) ==
  LET targets == ResolveTargets(view, targetDevices) IN
  /\ logs' = addLog(logs, "System",
                    <<"Executing: ./connect_ios_wireless.sh", action,
                      IF argument = "undefined" THEN "" ELSE argument, "on">>
                      \o deviceNames(targets), "command")
  /\ devices' = SetBusy(devices, targets)
  /\ disp' = Append(disp, Dispatch("waiting", origin, action, argument,
                                   targets, <<>>))

\* handleScriptExecution up to its return or its await: `view` is the devices
\* of the closure, origin 0 a quick-action button, h > 0 the onmessage call h.
handleScriptExecution(view, action, argument, targetDevices, origin) ==
  LET targets == ResolveTargets(view, targetDevices) IN
  IF Len(targets) = 0
  THEN /\ logs' = addLog(logs, "System",
                         <<"No valid targets found for action:", action>>, "error")
       /\ devices' = devices
       /\ disp' = Append(disp, Dispatch("done", origin, action, argument,
                                        targets, NoOnlineDevices))
  ELSE /\ logs' = addLog(logs, "System",
                         <<"Executing: ./connect_ios_wireless.sh", action,
                           IF argument = "undefined" THEN "" ELSE argument, "on">>
                           \o deviceNames(targets), "command")
       /\ devices' = SetBusy(devices, targets)
       /\ disp' = Append(disp, Dispatch("waiting", origin, action, argument,
                                        targets, <<>>))

\* A quick-action button: handleScriptExecution(cmd, undefined, ['all']) of the
\* current render.
QuickAction(cmds) ==
  /\ running = 0
  /\ clicks.button < MaxButtons
  /\ \E cmd \in cmds \cap QuickActions :
       handleScriptExecution(devices, cmd, "undefined", <<"all">>, 0)
  /\ clicks' = [clicks EXCEPT !.button = @ + 1]
  /\ UNCHANGED <<playback, isConnected, env, refs, attempt, audio, session, hand,
                 running, sent, thenQ>>

\* The timer of dispatch i fires: the second setDevices, the success entry and
\* the return.  The 'Typed text' entries are appended by the updater, which
\* React runs either at once or at the next render.
SettleDelay(i) ==
  /\ running = 0
  /\ i \in DOMAIN disp
  /\ disp[i].st = "waiting"
  /\ LET d == disp[i]
         success == LogEntry("System",
                      <<"Successfully executed", d.action, "on",
                        ToString(Len(d.targets)), "devices.">>, "success")
         typed == TypedLogs(devices, d.targets, d.action)
         shots == [j \in DOMAIN devices |-> RandomSeed(i, j)]
     IN /\ devices' = Settle(devices, d.targets, d.action, d.argument, shots)
        /\ \E eager \in BOOLEAN :
             logs' = IF eager THEN logs \o typed \o <<success>>
                     ELSE logs \o <<success>> \o typed
        /\ disp' = [disp EXCEPT ![i].st = "done",
                                ![i].result = Executed(d.action, d.targets)]
        /\ IF d.origin = 0
           THEN UNCHANGED <<hand, running>>
           ELSE /\ hand' = [hand EXCEPT ![d.origin].pc = "respond",
                                         ![d.origin].result =
                                            Executed(d.action, d.targets)]
                /\ running' = d.origin
  /\ UNCHANGED <<playback, isConnected, env, refs, attempt, audio, session, sent, thenQ,
                 clicks>>

\* sessionPromiseRef.current?.then(session => session.<send>(frame)): nothing
\* when the ref is null; queued while the connect promise is pending; handed
\* to the session object once the promise has resolved, whatever has become
\* of the channel since.
SendVia(frame) ==
  LET r == sessionPromiseRef IN
  IF r = 0 \/ session[r].st = "rejected"
  THEN UNCHANGED <<sent, thenQ>>
  ELSE IF session[r].resolved
       THEN /\ sent' = Append(sent, [frame EXCEPT !.sess = r,
                                                  !.live = (session[r].st = "open")])
            /\ thenQ' = thenQ
       ELSE /\ thenQ' = [thenQ EXCEPT ![r] = Append(@, frame)]
            /\ sent' = sent

\* onmessage of session k is called with a message that carries a tool call.
OnMessage(k, messages) ==
  /\ running = 0
  /\ session[k].st = "open"
  /\ Len(hand) < MaxMsgs
  /\ \E calls \in messages :
       hand' = Append(hand, [sess |-> k, calls |-> calls, idx |-> 1,
                             pc |-> "intent", result |-> <<>>])
  /\ running' = Len(hand) + 1
  /\ UNCHANGED <<playback, devices, logs, isConnected, env, refs, attempt, audio, session,
                 disp, sent, thenQ, clicks>>

\* The loop body up to the dispatch: the intent entry and the name test.
LogIntent(h) ==
  /\ running = h
  /\ hand[h].pc = "intent"
  /\ LET fc == hand[h].calls[hand[h].idx] IN
     /\ logs' = addLog(logs, "AI", <<"Identified Intent:", fc.name>>, "info")
     /\ hand' = IF fc.name = "execute_ios_script"
                THEN [hand EXCEPT ![h].pc = "exec"]
                ELSE [hand EXCEPT ![h].pc = "respond",
                                  ![h].result = <<"Error executing command.">>]
  /\ UNCHANGED <<playback, devices, isConnected, env, refs, attempt, audio, session, disp,
                 running, sent, thenQ, clicks>>

\* The loop without the await: the next call starts while the dispatch waits.
ExecuteCall_NoAwait(h) ==
  /\ running = h
  /\ hand[h].pc = "exec"
  /\ LET fc == hand[h].calls[hand[h].idx] IN
       handleScriptExecution(attempt[hand[h].sess].devices, fc.action,
                             fc.argument, TargetDevicesOf(fc), h)
  /\ hand' = [hand EXCEPT ![h].pc = "respond",
                          ![h].result = disp'[Len(disp')].result]
  /\ running' = h
  /\ UNCHANGED <<playback, isConnected, env, refs, attempt, audio, session, sent, thenQ,
                 clicks>>

\* result = await handleScriptExecution(..) with the closure of the render in
\* which the toggle was clicked.
ExecuteCall(h) ==
  /\ running = h
  /\ hand[h].pc = "exec"
  /\ LET fc == hand[h].calls[hand[h].idx] IN
       handleScriptExecution(attempt[hand[h].sess].devices, fc.action,
                             fc.argument, TargetDevicesOf(fc), h)
  /\ IF disp'[Len(disp')].st = "done"
     THEN /\ hand' = [hand EXCEPT ![h].pc = "respond",
                                  ![h].result = disp'[Len(disp')].result]
          /\ running' = h
     ELSE /\ hand' = [hand EXCEPT ![h].pc = "wait"]
          /\ running' = 0
  /\ UNCHANGED <<playback, isConnected, env, refs, attempt, audio, session, sent, thenQ,
                 clicks>>

\* Identifier of the idx-th function call of message h.
CallId(h, idx) == (h - 1) * MaxCalls + idx

\* The tool response of the current call, then the next call or the end.
Respond(h) ==
  /\ running = h
  /\ hand[h].pc = "respond"
  /\ LET fc == hand[h].calls[hand[h].idx] IN
       SendVia([kind |-> "toolResponse", id |-> CallId(h, hand[h].idx),
                name |-> fc.name, result |-> hand[h].result,
                sess |-> 0, live |-> FALSE])
  /\ IF hand[h].idx < Len(hand[h].calls)
     THEN /\ hand' = [hand EXCEPT ![h].idx = @ + 1, ![h].pc = "intent",
                                  ![h].result = <<>>]
          /\ running' = h
     ELSE /\ hand' = [hand EXCEPT ![h].pc = "done"]
          /\ running' = 0
  /\ UNCHANGED <<playback, devices, logs, isConnected, env, refs, attempt, audio, session,
                 disp, clicks>>

\* --------------------------------------------------------- toggleConnection
Clicked == clicks' = [clicks EXCEPT !.toggle = @ + 1]

CanClick(max) == running = 0 /\ clicks.toggle < max

\* The attempt a new toggleConnection call becomes.
Fresh == { k \in Conns : attempt[k].pc = "none" }
NewAttempt == CHOOSE k \in Fresh : \A j \in Fresh : k <= j

\* The stop that leaves the output AudioContext open.
ToggleStop_KeepsOutput(max) ==
  /\ CanClick(max)
  /\ isConnected
  /\ stream' = [k \in Conns |->
                  IF k = streamRef /\ stream[k] = "live" THEN "stopped"
                  ELSE stream[k]]
  /\ node' = [k \in Conns |->
                [node[k] EXCEPT
                   !.processor = IF k = processorRef THEN "disconnected" ELSE @,
                   !.source = IF k = sourceRef THEN "disconnected" ELSE @]]
  /\ ctxIn' = [k \in Conns |-> IF k = audioContextRef THEN "closed" ELSE ctxIn[k]]
  /\ ctxOut' = ctxOut
  /\ isConnected' = FALSE
  /\ logs' = addLog(logs, "System", <<"Voice session ended.">>, "info")
  /\ Clicked
  /\ UNCHANGED <<playback, devices, env, refs, attempt, session, disp, hand, running,
                 sent, thenQ>>

\* if (isConnected) { .. return; }
ToggleStop(max) ==
  /\ CanClick(max)
  /\ isConnected
  /\ stream' = [k \in Conns |->
                  IF k = streamRef /\ stream[k] = "live" THEN "stopped"
                  ELSE stream[k]]
  /\ node' = [k \in Conns |->
                [node[k] EXCEPT
                   !.processor = IF k = processorRef THEN "disconnected" ELSE @,
                   !.source = IF k = sourceRef THEN "disconnected" ELSE @]]
  /\ ctxIn' = [k \in Conns |-> IF k = audioContextRef THEN "closed" ELSE ctxIn[k]]
  /\ ctxOut' = [k \in Conns |->
                  IF k = outputAudioContextRef THEN "closed" ELSE ctxOut[k]]
  /\ isConnected' = FALSE
  /\ logs' = addLog(logs, "System", <<"Voice session ended.">>, "info")
  /\ Clicked
  /\ UNCHANGED <<playback, devices, env, refs, attempt, session, disp, hand, running,
                 sent, thenQ>>

\* if (!apiKey) with no window.aistudio.openSelectKey: alert, return.
ToggleAlert(max) ==
  /\ CanClick(max)
  /\ ~isConnected /\ ~apiKey /\ ~aistudio
  /\ Clicked
  /\ UNCHANGED <<playback, devices, logs, isConnected, env, refs, attempt, audio, session,
                 disp, hand, running, sent, thenQ>>

\* if (!apiKey) await window.aistudio.openSelectKey()
ToggleSelectKey(max) ==
  /\ CanClick(max)
  /\ ~isConnected /\ ~apiKey /\ aistudio
  /\ Fresh # {}
  /\ attempt' = [attempt EXCEPT ![NewAttempt] =
                   [pc |-> "selectKey", devices |-> devices]]
  /\ Clicked
  /\ UNCHANGED <<playback, devices, logs, isConnected, env, refs, audio, session, disp,
                 hand, running, sent, thenQ>>

\* From the read of process.env.API_KEY to the await of getUserMedia, for
\* attempt k whose closure holds the devices `view`; ctxOk is whether the two
\* AudioContext constructors return.
Setup(k, view, key, ctxOk) ==
  LET started == addLog(logs, "System",
                        <<"Initializing Gemini Live session...">>, "info") IN
  IF ~key
  THEN /\ logs' = addLog(logs, "System",
                         <<"API Key not available. Please select one.">>, "error")
       /\ attempt' = [attempt EXCEPT ![k] = [pc |-> "noKey", devices |-> view]]
       /\ UNCHANGED <<isConnected, ctxIn, ctxOut, audioContextRef,
                      outputAudioContextRef>>
  ELSE IF ctxOk
  THEN /\ isConnected' = TRUE
       /\ logs' = started
       /\ ctxIn' = [ctxIn EXCEPT ![k] = "running"]
       /\ ctxOut' = [ctxOut EXCEPT ![k] = "running"]
       /\ audioContextRef' = k
       /\ outputAudioContextRef' = k
       /\ attempt' = [attempt EXCEPT ![k] = [pc |-> "mic", devices |-> view]]
  ELSE /\ isConnected' = FALSE
       /\ logs' = addLog(started, "System",
                         <<"Failed to initialize AI session.">>, "error")
       /\ attempt' = [attempt EXCEPT ![k] = [pc |-> "threw", devices |-> view]]
       /\ UNCHANGED <<ctxIn, ctxOut, audioContextRef, outputAudioContextRef>>

\* A click with a stored key: straight to the setup.
ToggleConnect(max) ==
  /\ CanClick(max)
  /\ ~isConnected /\ apiKey
  /\ Fresh # {}
  /\ \E ctxOk \in BOOLEAN : Setup(NewAttempt, devices, envKey, ctxOk)
  /\ Clicked
  /\ UNCHANGED <<playback, devices, env, streamRef, processorRef, sourceRef,
                 sessionPromiseRef, stream, node, session, disp, hand, running,
                 sent, thenQ>>

\* openSelectKey() resolves; the host may have put a key into the environment.
SelectKeyResolved(k) ==
  /\ running = 0
  /\ attempt[k].pc = "selectKey"
  /\ \E key \in {envKey, TRUE} :
       /\ envKey' = key
       /\ \E ctxOk \in BOOLEAN : Setup(k, attempt[k].devices, key, ctxOk)
  /\ UNCHANGED <<playback, devices, apiKey, aistudio, streamRef, processorRef, sourceRef,
                 sessionPromiseRef, stream, node, session, disp, hand, running,
                 sent, thenQ, clicks>>

\* openSelectKey() rejects: alert, return.
SelectKeyRejected(k) ==
  /\ running = 0
  /\ attempt[k].pc = "selectKey"
  /\ attempt' = [attempt EXCEPT ![k].pc = "keyRejected"]
  /\ UNCHANGED <<playback, devices, logs, isConnected, env, refs, audio, session, disp,
                 hand, running, sent, thenQ, clicks>>

\* getUserMedia resolves: the stream is stored and ai.live.connect is called;
\* its promise is stored, not awaited.
MicGranted(k) ==
  /\ running = 0
  /\ attempt[k].pc = "mic"
  /\ stream' = [stream EXCEPT ![k] = "live"]
  /\ streamRef' = k
  /\ session' = [session EXCEPT ![k] = [st |-> "connecting", resolved |-> FALSE]]
  /\ sessionPromiseRef' = k
  /\ attempt' = [attempt EXCEPT ![k].pc = "done"]
  /\ UNCHANGED <<playback, devices, logs, isConnected, env, audioContextRef,
                 outputAudioContextRef, processorRef, sourceRef, ctxIn, ctxOut,
                 node, disp, hand, running, sent, thenQ, clicks>>

\* getUserMedia rejects: the catch block.
MicDenied(k) ==
  /\ running = 0
  /\ attempt[k].pc = "mic"
  /\ logs' = addLog(logs, "System", <<"Failed to initialize AI session.">>, "error")
  /\ isConnected' = FALSE
  /\ attempt' = [attempt EXCEPT ![k].pc = "denied"]
  /\ UNCHANGED <<playback, devices, env, refs, audio, session, disp, hand, running, sent,
                 thenQ, clicks>>

\* The promise of ai.live.connect rejects; nothing handles it.
ConnectRejected(k) ==
  /\ running = 0
  /\ session[k].st = "connecting"
  /\ session' = [session EXCEPT ![k].st = "rejected"]
  /\ thenQ' = [thenQ EXCEPT ![k] = <<>>]
  /\ UNCHANGED <<playback, devices, logs, isConnected, env, refs, attempt, audio, disp,
                 hand, running, sent, clicks>>

\* onopen, then the connect promise resolves and the queued callbacks run.
OnOpen(k) ==
  /\ running = 0
  /\ session[k].st = "connecting"
  /\ session' = [session EXCEPT ![k] = [st |-> "open", resolved |-> TRUE]]
  /\ logs' = addLog(logs, "AI",
                    <<"Connected. Listening for voice commands...">>, "success")
  /\ IF audioContextRef = 0 \/ streamRef = 0
     THEN UNCHANGED <<node, sourceRef, processorRef>>
     ELSE /\ node' = [node EXCEPT ![k] =
                        [source |-> "connected", processor |-> "connected",
                         ctx |-> audioContextRef, stream |-> streamRef]]
          /\ sourceRef' = k
          /\ processorRef' = k
  /\ sent' = sent \o [i \in DOMAIN thenQ[k] |->
                        [thenQ[k][i] EXCEPT !.sess = k, !.live = TRUE]]
  /\ thenQ' = [thenQ EXCEPT ![k] = <<>>]
  /\ UNCHANGED <<playback, devices, isConnected, env, audioContextRef,
                 outputAudioContextRef, streamRef, sessionPromiseRef, attempt,
                 ctxIn, ctxOut, stream, disp, hand, running, clicks>>

\* onclose: the remote end closed the channel.
OnClose(k) ==
  /\ running = 0
  /\ session[k].st \in {"connecting", "open", "error"}
  /\ session' = [session EXCEPT ![k].st = "closed"]
  /\ logs' = addLog(logs, "System", <<"Connection closed.">>, "info")
  /\ isConnected' = FALSE
  /\ UNCHANGED <<playback, devices, env, refs, attempt, audio, disp, hand, running, sent,
                 thenQ, clicks>>

\* onerror: the channel failed.
OnError(k) ==
  /\ running = 0
  /\ session[k].st \in {"connecting", "open"}
  /\ session' = [session EXCEPT ![k].st = "error"]
  /\ logs' = addLog(logs, "System", <<"Connection error occurred.">>, "error")
  /\ isConnected' = FALSE
  /\ UNCHANGED <<playback, devices, env, refs, attempt, audio, disp, hand, running, sent,
                 thenQ, clicks>>

\* onaudioprocess of the processor made by onopen of session n.
AudioProcess(n) ==
  /\ running = 0
  /\ clicks.frame < MaxFrames
  /\ node[n].processor = "connected"
  /\ ctxIn[node[n].ctx] = "running"
  /\ SendVia([kind |-> "realtimeInput", id |-> 0, name |-> "", result |-> <<>>,
              sess |-> 0, live |-> FALSE])
  /\ clicks' = [clicks EXCEPT !.frame = @ + 1]
  /\ UNCHANGED <<playback, devices, logs, isConnected, env, refs, attempt, audio, session,
                 disp, hand, running>>

\* -------------------------------------------------------- inbound audio
\* A message carries an audio chunk or a tool call.  The decoder is an external
\* collaborator: decoding suspends onmessage, other tasks run meanwhile, the
\* decodes of two messages may complete in either order, and a decode may
\* fail.
Max(a, b) == IF a >= b THEN a ELSE b

\* audioBuffer.duration of a decoded chunk.
Durations == 1..MaxDuration

\* decodeAudioData(..) of chunk c is pending.
Decoding(c) == c \in DOMAIN chunks /\ chunks[c].pc = "decoding"

\* When the chunk made audible by the c-th arrival stops sounding: a start
\* time that lies in the past starts the source at once.
EndOf(ch) == Max(ch.start, ch.at) + ch.dur

\* onmessage of session k with an audio chunk, up to the await of the decode.
OnAudio(k) ==
  /\ running = 0
  /\ session[k].st = "open"
  /\ Len(chunks) < MaxChunks
  /\ outputAudioContextRef # 0
  /\ isTalking' = TRUE
  /\ nextStartTimeRef' = Max(nextStartTimeRef, currentTime[outputAudioContextRef])
  /\ chunks' = Append(chunks, [sess |-> k, ctx |-> outputAudioContextRef,
                               pc |-> "decoding", dur |-> 0, start |-> 0,
                               at |-> 0])
  /\ UNCHANGED <<devices, logs, isConnected, env, refs, attempt, audio, session,
                 disp, hand, running, sent, thenQ, clicks, currentTime, played>>

\* The decode continuation that leaves the cursor where it is.
DecodeDone_NoAdvance(c) ==
  /\ running = 0
  /\ Decoding(c)
  /\ \E dur \in Durations, made \in BOOLEAN :
       /\ made \/ ctxOut[chunks[c].ctx] = "closed"
       /\ IF made
          THEN /\ chunks' = [chunks EXCEPT ![c].pc = "scheduled",
                                           ![c].dur = dur,
                                           ![c].start = nextStartTimeRef,
                                           ![c].at = currentTime[chunks[c].ctx]]
               /\ nextStartTimeRef' = nextStartTimeRef
               /\ played' = Append(played, c)
          ELSE /\ chunks' = [chunks EXCEPT ![c].pc = "threw"]
               /\ UNCHANGED <<nextStartTimeRef, played>>
  /\ UNCHANGED <<devices, logs, isConnected, env, refs, attempt, audio, session,
                 disp, hand, running, sent, thenQ, clicks, isTalking, currentTime>>

\* The decode of chunk c resolves: the buffer source is created, started at the
\* cursor, and the cursor advances.  A closed context may refuse to make the
\* node, which ends onmessage with an exception.
DecodeDone(c) ==
  /\ running = 0
  /\ Decoding(c)
  /\ \E dur \in Durations, made \in BOOLEAN :
       /\ made \/ ctxOut[chunks[c].ctx] = "closed"
       /\ IF made
          THEN /\ chunks' = [chunks EXCEPT ![c].pc = "scheduled",
                                           ![c].dur = dur,
                                           ![c].start = nextStartTimeRef,
                                           ![c].at = currentTime[chunks[c].ctx]]
               /\ nextStartTimeRef' = nextStartTimeRef + dur
               /\ played' = Append(played, c)
          ELSE /\ chunks' = [chunks EXCEPT ![c].pc = "threw"]
               /\ UNCHANGED <<nextStartTimeRef, played>>
  /\ UNCHANGED <<devices, logs, isConnected, env, refs, attempt, audio, session,
                 disp, hand, running, sent, thenQ, clicks, isTalking, currentTime>>

\* The decode of chunk c rejects: onmessage ends with an exception that
\* nothing catches.
DecodeFails(c) ==
  /\ running = 0
  /\ Decoding(c)
  /\ chunks' = [chunks EXCEPT ![c].pc = "failed"]
  /\ UNCHANGED <<devices, logs, isConnected, env, refs, attempt, audio, session,
                 disp, hand, running, sent, thenQ, clicks, isTalking,
                 nextStartTimeRef, currentTime, played>>

\* The clock of the output context of attempt k advances while it runs.
Tick(k) ==
  /\ running = 0
  /\ ctxOut[k] = "running"
  /\ currentTime[k] < MaxTime
  /\ currentTime' = [currentTime EXCEPT ![k] = @ + 1]
  /\ UNCHANGED <<devices, logs, isConnected, env, refs, attempt, audio, session,
                 disp, hand, running, sent, thenQ, clicks, isTalking,
                 nextStartTimeRef, chunks, played>>

\* source.onended with `>` in place of `>=`.
Ended_StrictlyAfter(c) ==
  /\ running = 0
  /\ c \in DOMAIN chunks
  /\ chunks[c].pc = "scheduled"
  /\ ctxOut[chunks[c].ctx] = "running"
  /\ currentTime[chunks[c].ctx] >= EndOf(chunks[c])
  /\ chunks' = [chunks EXCEPT ![c].pc = "ended"]
  /\ isTalking' = IF currentTime[chunks[c].ctx] > nextStartTimeRef THEN FALSE
                  ELSE isTalking
  /\ UNCHANGED <<devices, logs, isConnected, env, refs, attempt, audio, session,
                 disp, hand, running, sent, thenQ, clicks, nextStartTimeRef,
                 currentTime, played>>

\* source.onended of chunk c: the source has played to its end.
Ended(c) ==
  /\ running = 0
  /\ c \in DOMAIN chunks
  /\ chunks[c].pc = "scheduled"
  /\ ctxOut[chunks[c].ctx] = "running"
  /\ currentTime[chunks[c].ctx] >= EndOf(chunks[c])
  /\ chunks' = [chunks EXCEPT ![c].pc = "ended"]
  /\ isTalking' = IF currentTime[chunks[c].ctx] >= nextStartTimeRef THEN FALSE
                  ELSE isTalking
  /\ UNCHANGED <<devices, logs, isConnected, env, refs, attempt, audio, session,
                 disp, hand, running, sent, thenQ, clicks, nextStartTimeRef,
                 currentTime, played>>

\* ----------------------------------------------------------- specifications
Handling ==
  \E h \in 1..MaxMsgs : LogIntent(h) \/ ExecuteCall(h) \/ Respond(h)

Settling == \E i \in 1..(MaxButtons + MaxMsgs * MaxCalls) : SettleDelay(i)

\* The dispatcher: one voice session, every tool call, the quick actions and
\* the configuration editor.
NextDispatch ==
  \/ ToggleConnect(OneToggle)
  \/ \E k \in Conns : MicGranted(k) \/ OnOpen(k)
  \/ \E k \in Conns : OnMessage(k, ToolCalls)
  \/ Handling
  \/ QuickAction({"home", "launch", "screenshot"})
  \/ Settling
  \/ parseConfig

FirstDraw == devices[1].batteryLevel = 60

InitDispatch == Init /\ envKey /\ FirstDraw

SpecDispatch == InitDispatch /\ [][NextDispatch]_vars

\* The session controller: every toggle and every channel callback, with one
\* kind of tool call.
SessionCalls ==
  { <<Home>>, <<Other>> }

Next ==
  \/ ToggleStop(MaxToggles) \/ ToggleAlert(MaxToggles)
  \/ ToggleSelectKey(MaxToggles) \/ ToggleConnect(MaxToggles)
  \/ \E k \in Conns : SelectKeyResolved(k) \/ SelectKeyRejected(k)
  \/ \E k \in Conns : MicGranted(k) \/ MicDenied(k)
  \/ \E k \in Conns : ConnectRejected(k) \/ OnOpen(k) \/ OnClose(k) \/ OnError(k)
  \/ \E n \in Conns : AudioProcess(n)
  \/ \E k \in Conns : OnMessage(k, SessionCalls)
  \/ Handling
  \/ Settling

InitSession == Init /\ FirstDraw

Spec == InitSession /\ [][Next]_vars

\* Reconnecting: sessions one after the other, each with its own output
\* context, and the inbound chunks of each.
NextReconnect ==
  \/ ToggleConnect(MaxToggles) \/ ToggleStop(MaxToggles)
  \/ \E k \in Conns : MicGranted(k) \/ OnOpen(k)
  \/ \E k \in Conns : OnAudio(k) \/ Tick(k)
  \/ \E c \in 1..MaxChunks : DecodeDone(c)

SpecReconnect == InitDispatch /\ [][NextReconnect]_vars

\* The action table: one voice session whose message carries one call, of any
\* action, with or without an argument, for all devices or for one; a quick
\* action and a reload may come in between.
ActionCalls ==
  { << Call("execute_ios_script", action, argument, targetDevices) >> :
      action \in Range(ScriptCommand),
      argument \in {"undefined", "", "com.apple.Maps"},
      targetDevices \in {<<"all">>, <<"00032-000A2B801C">>} }

NextActions ==
  \/ ToggleConnect(OneToggle)
  \/ \E k \in Conns : MicGranted(k) \/ OnOpen(k)
  \/ \E k \in Conns : OnMessage(k, ActionCalls)
  \/ Handling
  \/ QuickAction(QuickActions)
  \/ Settling
  \/ parseConfig

SpecActions == InitDispatch /\ [][NextActions]_vars

\* The activity log: every operation that writes an entry, in one session
\* that the user or the remote end may end.
NextLog ==
  \/ ToggleConnect(TwoToggles) \/ ToggleStop(TwoToggles)
  \/ \E k \in Conns : MicGranted(k) \/ OnOpen(k) \/ OnClose(k)
  \/ \E k \in Conns : OnMessage(k, SessionCalls)
  \/ Handling
  \/ QuickAction({"text"})
  \/ Settling
  \/ parseConfig

SpecLog == InitDispatch /\ [][NextLog]_vars

\* The audio bridge: one session from the click to its end, by the user or by
\* the remote end's close, with the microphone frames and the inbound chunks.
NextAudio ==
  \/ ToggleConnect(TwoToggles) \/ ToggleStop(TwoToggles)
  \/ \E k \in Conns : MicGranted(k) \/ OnOpen(k) \/ OnClose(k)
  \/ \E n \in Conns : AudioProcess(n)
  \/ \E k \in Conns : OnAudio(k) \/ Tick(k)
  \/ \E c \in 1..MaxChunks : DecodeDone(c) \/ DecodeFails(c) \/ Ended(c)

SpecAudio == InitDispatch /\ [][NextAudio]_vars

\* ------------------------------------------------------------------ claims
\* The dispatch that the step begins, if the step begins one.
Begins(i) == i \in DOMAIN disp' /\ i \notin DOMAIN disp

\* The dispatch whose settle delay ends in the step.
Settles(i) == i \in DOMAIN disp /\ disp[i].st = "waiting" /\ disp'[i].st = "done"

LastLog(log) == log[Len(log)]

\* C1: no dispatch, from a button or from a tool call, by name or with 'all',
\* takes as a target a device that is offline in the registry when the
\* dispatch resolves its targets.
C1_OfflineNeverTargeted ==
  [][\A i \in 1..(Len(disp) + 1) :
       Begins(i) =>
         \A j \in DOMAIN devices :
           IsTarget(disp'[i].targets, devices[j]) => devices[j].status # "offline"]_vars

\* C2: a device that is offline (as every target of a settled restart is)
\* stays offline through every later dispatch, until the configuration is
\* loaded again.
C2_RestartIsTerminal ==
  [][clicks'.reload = clicks.reload =>
       \A j \in DOMAIN devices :
         devices[j].status = "offline" =>
           j \in DOMAIN devices' /\ devices'[j].status = "offline"]_vars

\* C3: a dispatch whose resolved target set is empty leaves the registry as it
\* is, appends exactly one entry, of type error, and returns the 'no online
\* devices' text.
C3_EmptyTargetSet ==
  [][\A i \in 1..(Len(disp) + 1) :
       (Begins(i) /\ Len(disp'[i].targets) = 0) =>
         /\ devices' = devices
         /\ Len(logs') = Len(logs) + 1
         /\ SubSeq(logs', 1, Len(logs)) = logs
         /\ LastLog(logs').type = "error"
         /\ disp'[i].st = "done"
         /\ disp'[i].result = NoOnlineDevices
         /\ disp'[i].origin > 0 => hand'[disp'[i].origin].result = NoOnlineDevices]_vars

C3_Witness ==
  \E i \in DOMAIN disp :
    /\ disp[i].targets = <<>>
    /\ disp[i].origin > 0
    /\ \E r \in DOMAIN sent :
         sent[r].kind = "toolResponse" /\ sent[r].result = NoOnlineDevices

C5_OneLiveChannel == Cardinality({ k \in Conns : Live(session[k]) }) <= 1

\* The controller is idle and the last entry is 'Voice session ended.'.
IdleAfterStop ==
  ~isConnected /\ LastLog(logs).message = <<"Voice session ended.">>

\* The session is open: the controller is connected and the stored channel is
\* open.
Open ==
  /\ isConnected
  /\ sessionPromiseRef # 0
  /\ session[sessionPromiseRef].st = "open"

\* The user clicks the toggle while the session is open.
UserStop == Open /\ running = 0 /\ clicks'.toggle = clicks.toggle + 1

\* C6: after a user-initiated disconnect the channel of the ended session is
\* no longer live, so that no tool call can arrive on it.
C6_StopEndsChannel ==
  [][UserStop => ~Live(session'[sessionPromiseRef])]_vars

\* The microphone is released and both audio contexts are closed, as a
\* user-initiated stop leaves them.
Released ==
  /\ streamRef # 0 => stream[streamRef] = "stopped"
  /\ processorRef # 0 => node[processorRef].processor = "disconnected"
  /\ sourceRef # 0 => node[sourceRef].source = "disconnected"
  /\ audioContextRef # 0 => ctxIn[audioContextRef] = "closed"
  /\ outputAudioContextRef # 0 => ctxOut[outputAudioContextRef] = "closed"

\* The channel of session k is ended by the remote end in the step.
RemoteEnd(k) == session[k].st = "open" /\ session'[k].st \in {"closed", "error"}

\* C7: a remote close or a remote error releases the microphone and closes
\* both audio contexts, as a user-initiated stop does.
C7_RemoteEndReleases ==
  [][\A k \in Conns : RemoteEnd(k) => Released']_vars

\* C8: a click on the toggle while the session is open stops the tracks,
\* disconnects the processor and the source, closes both audio contexts, makes
\* the controller idle and appends 'Voice session ended.'.
C8_UserStop ==
  [][UserStop =>
       /\ Released'
       /\ streamRef # 0 /\ processorRef # 0 /\ sourceRef # 0
       /\ audioContextRef # 0 /\ outputAudioContextRef # 0
       /\ ~isConnected'
       /\ logs' = Append(logs, LogEntry("System", <<"Voice session ended.">>, "info"))]_vars

C8_Witness ==
  /\ IdleAfterStop
  /\ sessionPromiseRef # 0
  /\ session[sessionPromiseRef].st = "open"
  /\ stream[streamRef] = "stopped"
  /\ ctxOut[outputAudioContextRef] = "closed"

\* C9: after a remote close or error the controller is idle, the event is
\* logged (as an error for an error) and the stored session handle no longer
\* refers to the ended session.
C9_RemoteEndClearsHandle ==
  [][\A k \in Conns :
       RemoteEnd(k) =>
         /\ ~isConnected'
         /\ Len(logs') = Len(logs) + 1
         /\ session'[k].st = "error" => LastLog(logs').type = "error"
         /\ sessionPromiseRef' # k]_vars

\* The setup of attempt k fails in the step: an exception in the setup, the
\* microphone refused, or the connect promise rejected.
SetupFails(k) ==
  \/ attempt[k].pc # attempt'[k].pc /\ attempt'[k].pc \in {"threw", "denied"}
  \/ session[k].st = "connecting" /\ session'[k].st = "rejected"

\* C10: whenever the setup fails, the controller is idle and an entry of type
\* error has been appended.
C10_SetupFailureIsIdle ==
  [][\A k \in Conns :
       SetupFails(k) =>
         /\ ~isConnected'
         /\ Len(logs') > Len(logs)
         /\ LastLog(logs').type = "error"]_vars

\* A failure happens in the step: no credential and no key selector, the key
\* selection fails, the setup fails, the channel reports an error, a dispatch
\* finds no target, a tool call names an unknown tool, a decode fails.
Failure ==
  \/ /\ running = 0 /\ ~isConnected /\ ~apiKey /\ ~aistudio
     /\ clicks'.toggle = clicks.toggle + 1
  \/ \E k \in Conns :
       /\ attempt'[k].pc # attempt[k].pc
       /\ attempt'[k].pc \in {"keyRejected", "noKey", "threw", "denied"}
  \/ \E k \in Conns : session'[k].st # session[k].st /\ session'[k].st = "error"
  \/ \E i \in 1..(Len(disp) + 1) : Begins(i) /\ Len(disp'[i].targets) = 0
  \/ \E h \in DOMAIN hand :
       /\ hand[h].pc = "intent" /\ hand'[h].pc = "respond"
       /\ hand[h].calls[hand[h].idx].name # "execute_ios_script"
  \/ \E c \in DOMAIN chunks : Decoding(c) /\ chunks'[c].pc = "failed"

\* C11: every failure path appends at least one entry to the activity log.
C11_FailuresAreLogged ==
  [][Failure => Len(logs') > Len(logs)]_vars

\* The dispatches started by message h, in the order they were started.
DispatchesOf(h) == SelectSeq(disp, LAMBDA d : d.origin = h)

\* The result the idx-th call of message h has to be answered with.
ResultOf(h, idx) ==
  LET calls == hand[h].calls
      n == Cardinality({ j \in 1..idx : calls[j].name = "execute_ios_script" })
  IN IF calls[idx].name = "execute_ios_script"
     THEN DispatchesOf(h)[n].result
     ELSE <<"Error executing command.">>

\* The tool responses handed to a channel for the calls of message h.
ResponsesOf(h) ==
  SelectSeq(sent, LAMBDA f : /\ f.kind = "toolResponse"
                             /\ f.id \in { CallId(h, j) : j \in DOMAIN hand[h].calls })

\* C12: when onmessage has run to its end, every tool call of the message has
\* exactly one tool response, handed to the channel that carried the call
\* while it is open, with the call's id and name and the dispatcher's result
\* (the fixed error text for an unknown tool), in call order.
C12_OneResponsePerCall ==
  \A h \in DOMAIN hand :
    hand[h].pc = "done" =>
      /\ Len(ResponsesOf(h)) = Len(hand[h].calls)
      /\ \A j \in DOMAIN ResponsesOf(h) :
           /\ ResponsesOf(h)[j].id = CallId(h, j)
           /\ ResponsesOf(h)[j].name = hand[h].calls[j].name
           /\ ResponsesOf(h)[j].result = ResultOf(h, j)
           /\ ResponsesOf(h)[j].sess = hand[h].sess
           /\ ResponsesOf(h)[j].live

\* The dispatches of message h whose settle delay has not ended.
InFlight(h) == { i \in DOMAIN disp : disp[i].origin = h /\ disp[i].st = "waiting" }

\* C13: the tool calls of one message are dispatched one after another: at
\* most one dispatch of a message is in flight, and none is while the loop
\* logs an intent, starts a dispatch or sends a response.
C13_CallsInSequence ==
  \A h \in DOMAIN hand :
    /\ Cardinality(InFlight(h)) <= 1
    /\ hand[h].pc \in {"intent", "exec", "respond"} => InFlight(h) = {}

C13_Witness ==
  \E h \in DOMAIN hand :
    /\ hand[h].idx = 2 /\ hand[h].pc = "wait"
    /\ Len(DispatchesOf(h)) = 2
    /\ DispatchesOf(h)[1].st = "done" /\ DispatchesOf(h)[1].targets # <<>>
    /\ DispatchesOf(h)[2].st = "waiting"

\* source.start is called for chunk c in the step.
Starts(c) == Decoding(c) /\ chunks'[c].pc = "scheduled"

\* C14: the value passed to source.start is the greater of the cursor and of
\* the playback clock at the moment of the call, and the cursor then advances
\* by the duration of the chunk.
C14_StartAtClockOrCursor ==
  [][\A c \in DOMAIN chunks :
       Starts(c) =>
         /\ chunks'[c].start = Max(currentTime[chunks[c].ctx], nextStartTimeRef)
         /\ chunks'[c].start >= currentTime[chunks[c].ctx]
         /\ nextStartTimeRef' = chunks'[c].start + chunks'[c].dur]_vars

\* C15: of two chunks that have been scheduled, the one that arrived first has
\* the earlier start time.
C15_ArrivalOrder ==
  \A c, d \in DOMAIN chunks :
    (c < d /\ chunks[c].pc \in {"scheduled", "ended"}
           /\ chunks[d].pc \in {"scheduled", "ended"}) =>
      chunks[c].start < chunks[d].start

\* C16: the cursor never decreases, and of two chunks started one after the
\* other the later is started no earlier than the start time of the earlier
\* plus its duration.
C16_CursorMonotone ==
  [][/\ nextStartTimeRef' >= nextStartTimeRef
     /\ \A i \in 1..(Len(played') - 1) :
          chunks'[played'[i + 1]].start >=
            chunks'[played'[i]].start + chunks'[played'[i]].dur]_vars

C16_Witness ==
  /\ Len(played) = 2
  /\ chunks[played[2]].start > chunks[played[1]].start + chunks[played[1]].dur

\* Every chunk received has played to its end.
AllEnded == chunks # <<>> /\ \A c \in DOMAIN chunks : chunks[c].pc = "ended"

\* C17: the speaking indicator is set when a chunk arrives, is cleared when a
\* chunk ends with the clock at or past the cursor, and is false once every
\* chunk received has played to its end.
C17_SpeakingIndicator ==
  [][/\ Len(chunks') > Len(chunks) => isTalking'
     /\ \A c \in DOMAIN chunks :
          (/\ chunks[c].pc = "scheduled" /\ chunks'[c].pc = "ended"
           /\ currentTime[chunks[c].ctx] >= nextStartTimeRef) => ~isTalking'
     /\ AllEnded' => ~isTalking']_vars

C17_Witness ==
  /\ AllEnded /\ Len(chunks) = 2 /\ ~isTalking
  /\ currentTime[chunks[1].ctx] = nextStartTimeRef

\* The frames handed to a channel in the step.
NewFrames == { i \in DOMAIN sent' : i > Len(sent) }

\* C18: a microphone frame is handed to the channel, and an inbound chunk is
\* started, only while the session is open: the controller is connected and
\* the channel concerned is open.
C18_AudioOnlyWhileOpen ==
  [][/\ \A i \in NewFrames :
          sent'[i].kind = "realtimeInput" => (isConnected /\ sent'[i].live)
     /\ \A c \in DOMAIN chunks :
          Starts(c) => (isConnected /\ session[chunks[c].sess].st = "open")]_vars

deviceIds(targets) == [t \in DOMAIN targets |-> targets[t].id]

\* The dispatch that begins in the step was asked for 'all': a quick action,
\* or a tool call whose targetDevices holds 'all' or is absent.
AskedForAll(i) ==
  \/ disp'[i].origin = 0
  \/ /\ disp'[i].origin > 0
     /\ LET h == disp'[i].origin IN
          "all" \in Range(TargetDevicesOf(hand[h].calls[hand[h].idx]))

\* C19: a dispatch asked for 'all' resolves to exactly the registry devices
\* that are not offline; only targets are changed, when the dispatch begins
\* and when it settles, and the result names exactly the targets.
C19_AllMeansOnline ==
  [][\A i \in 1..(Len(disp) + 1) :
       /\ (Begins(i) /\ AskedForAll(i)) =>
            /\ deviceIds(disp'[i].targets) = deviceIds(SelectSeq(devices, IsOnline))
            /\ deviceNames(disp'[i].targets) =
                 deviceNames(SelectSeq(devices, IsOnline))
            /\ DOMAIN devices' = DOMAIN devices
            /\ \A j \in DOMAIN devices :
                 devices'[j] # devices[j] => IsOnline(devices[j])
       /\ Settles(i) =>
            /\ DOMAIN devices' = DOMAIN devices
            /\ \A j \in DOMAIN devices :
                 devices'[j] # devices[j] => IsTarget(disp[i].targets, devices[j])
            /\ disp'[i].result = Executed(disp[i].action, disp[i].targets)]_vars

\* The active app a target has after `action` with `argument` has settled,
\* `absent` being the arguments that count as absent.
AppAfter(action, argument, before, absent) ==
  CASE action = "url" -> "Safari"
    [] action = "launch" -> IF argument \in absent THEN "App" ELSE argument
    [] action \in {"kill", "home"} -> "SpringBoard"
    [] OTHER -> before

\* What a dispatch leaves of the devices when it settles.
ActionTable(absent) ==
  \A i \in DOMAIN disp :
    Settles(i) =>
      /\ DOMAIN devices' = DOMAIN devices
      /\ \A j \in DOMAIN devices :
           LET d == devices[j]  e == devices'[j] IN
           IF IsTarget(disp[i].targets, d)
           THEN /\ e.currentApp = AppAfter(disp[i].action, disp[i].argument,
                                           d.currentApp, absent)
                /\ disp[i].action # "screenshot" =>
                     e.lastScreenshot = d.lastScreenshot
                /\ disp[i].action = "screenshot" =>
                     e.lastScreenshot # d.lastScreenshot
                /\ e.id = d.id /\ e.name = d.name /\ e.model = d.model
                /\ e.osVersion = d.osVersion /\ e.ip = d.ip
                /\ e.batteryLevel = d.batteryLevel
           ELSE e = d

HomeOnce(devs, targetDevices) ==
  LET targets == ResolveTargets(devs, targetDevices) IN
  IF Len(targets) = 0 THEN devs
  ELSE Settle(SetBusy(devs, targets), targets, "home", "undefined",
              [j \in DOMAIN devs |-> 0])

AppAndStatus(devs) ==
  [j \in DOMAIN devs |-> <<devs[j].currentApp, devs[j].status>>]

TargetLists ==
  { <<"all">>, <<"00032-000A2B801C">>, <<"00-0010501C", "00032-000A2B801C">> }

\* C21: from any registry the program reaches, home dispatched twice in
\* sequence on the same target list leaves every device with the active app
\* and the status that home dispatched once leaves.
C21_HomeIdempotent ==
  \A targetDevices \in TargetLists :
    AppAndStatus(HomeOnce(HomeOnce(devices, targetDevices), targetDevices)) =
      AppAndStatus(HomeOnce(devices, targetDevices))

C21_Witness ==
  /\ \E j \in DOMAIN devices :
       devices[j].status = "connected" /\ devices[j].currentApp = "com.apple.Maps"
  /\ \E j \in DOMAIN devices : devices[j].status = "busy"
  /\ AppAndStatus(HomeOnce(devices, <<"all">>)) # AppAndStatus(devices)

HasEntry(message) == \E i \in DOMAIN logs : logs[i].message = message

C23_DistinctIds ==
  \A i, j \in DOMAIN devices : devices[i].id = devices[j].id => i = j

\* C24: while a dispatch is in its settle delay each registry device that is
\* one of its targets is busy.
C24_TargetsStayBusy ==
  \A i \in DOMAIN disp :
    disp[i].st = "waiting" =>
      \A j \in DOMAIN devices :
        IsTarget(disp[i].targets, devices[j]) => devices[j].status = "busy"

\* C25: a device that is busy is a target of a dispatch that has not settled;
\* so no device is busy when no dispatch is in flight.
C25_BusyHasDispatch ==
  \A j \in DOMAIN devices :
    devices[j].status = "busy" =>
      \E i \in DOMAIN disp :
        disp[i].st = "waiting" /\ IsTarget(disp[i].targets, devices[j])

C25_Witness ==
  /\ clicks.reload = 1
  /\ \E i, k \in DOMAIN disp :
       i # k /\ disp[i].st = "done" /\ disp[i].targets # <<>>
             /\ disp[k].st = "waiting"
  /\ \E j \in DOMAIN devices : devices[j].status = "busy"
  /\ \E j \in DOMAIN devices : devices[j].status = "connected"

\* Chunk c has been received and has not finished playing: it is being
\* decoded, or it has been started and its end lies ahead of the clock.
Unfinished(c) ==
  \/ Decoding(c)
  \/ /\ chunks[c].pc = "scheduled"
     /\ ctxOut[chunks[c].ctx] = "running"
     /\ currentTime[chunks[c].ctx] < EndOf(chunks[c])

\* C26: while a chunk that has been received is being decoded or played, the
\* speaking indicator is true.
C26_SpeakingWhilePlaying ==
  (\E c \in DOMAIN chunks : Unfinished(c)) => isTalking

\* Chunk c is the first chunk of its session, played on the running output
\* context that the session's own connect made: no other chunk arrived for
\* that context before it or has been started on it before it.
FirstOfSession(c) ==
  /\ chunks[c].ctx = chunks[c].sess
  /\ ctxOut[chunks[c].ctx] = "running"
  /\ \A b \in DOMAIN chunks :
       (b # c /\ chunks[b].ctx = chunks[c].ctx) =>
         (b > c /\ chunks[b].pc = "decoding")

\* C27: the first chunk of a session is started no later than the clock of
\* its output context stands when it is started: the cursor left by an
\* earlier session does not delay it.
C27_FreshSessionNotDelayed ==
  [][\A c \in DOMAIN chunks :
       (Starts(c) /\ FirstOfSession(c)) =>
         chunks'[c].start <= currentTime[chunks[c].ctx]]_vars
====
